---- MODULE Spec2Model ----
(***************************************************************************)
(* Pair analytics engine: the analytics scheduler loop and its SQLite      *)
(* store (src/analytics/engine.py), and the mean-reversion backtest        *)
(* simulator (src/analytics/computations.py) as called by the dashboard    *)
(* (src/dashboard/app.py); and the functions one pair/timeframe unit runs: *)
(* resample_prices and process_pair_analytics (engine.py),                 *)
(* compute_hedge_ratio, compute_zscore and compute_adf_test                *)
(* (computations.py); and the tick ingestion loop                          *)
(* (src/ingestion/ws_ingest.py).                                           *)
(***************************************************************************)
EXTENDS Integers, Sequences, FiniteSets, Bags, TLC

VARIABLES
    \* ---- analytics_loop (engine.py) ----
    pc,               \* position of analytics_loop
    iteration,        \* engine.py:307 iteration counter
    pairIdx,          \* index into SYMBOL_PAIRS of the for loop at engine.py:315
    df_ticks,         \* engine.py:317 result of load_recent_ticks: "empty" or "rows"
    data,             \* what the ticks of this cycle make the computed columns
    tfIdx,            \* index into TIMEFRAMES of the for loop at engine.py:324
    analytics_batch,  \* engine.py:312 list of records of the current cycle
    wIdx,             \* position of the for loop of batch_write_analytics
    store,            \* committed rows of table analytics (a bag of rows)
    txn,              \* uncommitted transaction of the writer's connection
    seen,             \* server.py:288 rows a concurrent reader last got
    lastLog,          \* the last line the logger wrote
    signal,           \* termination signal delivered to the process
    now,              \* timestamp of the latest aligned bar (advances with time)
    \* ---- dashboard backtest tab and simple_backtest (computations.py) ----
    bt_pc,            \* position of the backtest call
    scenario,         \* TRUE: the history is the baseline/spike/baseline series
    df_analytics,     \* app.py:175 frame load_analytics returned (zscore column
                      \* apart: each row's zscore is drawn when the loop reads it)
    entry_threshold,  \* app.py:463 entry_z, in tenths
    exit_threshold,   \* app.py:464 exit_z, in tenths
    df,               \* computations.py:145 frame after dropna()
    rowNum,           \* rows of df the for loop at computations.py:158 has read
    position,         \* computations.py:153
    entry_price,      \* computations.py:155
    entry_time,       \* computations.py:156
    trades,           \* computations.py:154
    result,           \* what simple_backtest returned
    \* ---- compute_hedge_ratio (computations.py:8) ----
    hr_pc,            \* position of the call
    method,           \* the estimator selector
    len_y,            \* len(y)
    len_x,            \* len(x)
    overlap,          \* rows of pd.concat([y, x], axis=1).dropna()
    hr_result,        \* what the call returned or raised
    \* ---- compute_zscore (computations.py:59) ----
    zs_pc,            \* position of the two calls
    window,           \* the window argument
    series,           \* the series argument of the first call
    later,            \* the series argument of the second call
    zs,               \* what the first call returned
    zs_later,         \* what the second call returned
    \* ---- resample_prices (engine.py:123) ----
    rs_pc,            \* position of the call
    ticks,            \* the rows of the df argument, in row order
    bars,             \* the rows of the frame returned
    \* ---- process_pair_analytics (engine.py:165) ----
    pp_pc,            \* position of the call
    timeframe,        \* the timeframe argument
    y_bars,           \* engine.py:177 number of bars of pair_y
    x_bars,           \* engine.py:178 number of bars of pair_x
    aligned,          \* engine.py:209 number of rows of aligned
    rolling_windows,  \* engine.py:37 ROLLING_WINDOWS as configured
    hedge_result,     \* engine.py:199
    z_window,         \* engine.py:220
    corr_window,      \* engine.py:223
    vol_window,       \* engine.py:228
    adf_result,       \* engine.py:233
    tail_rows,        \* engine.py:236 the last rows of aligned: bar number and
                      \* whether zscore and correlation are NaN
    older_row,        \* bar number of the last row before tail_rows without
                      \* NaN, 0 if there is none
    pp_result,        \* what the call returned or raised
    \* ---- ingest_forever / ingest_once (ws_ingest.py) ----
    ig_pc,            \* position of the ingestion process
    attempt,          \* ws_ingest.py:101
    msg_count,        \* ws_ingest.py:69
    committed,        \* rows of table ticks that are committed
    pending,          \* rows inserted on the open connection, not committed
    dropped,          \* rows the last closed connection rolled back
    cause             \* what ended the last connection

schedVars == <<pc, iteration, pairIdx, df_ticks, data, tfIdx, analytics_batch, wIdx,
               store, txn, seen, lastLog, signal, now>>

btVars == <<bt_pc, scenario, df_analytics, entry_threshold, exit_threshold, df,
            rowNum, position, entry_price, entry_time, trades, result>>

hrVars == <<hr_pc, method, len_y, len_x, overlap, hr_result>>

zsVars == <<zs_pc, window, series, later, zs, zs_later>>

rsVars == <<rs_pc, ticks, bars>>

ppVars == <<pp_pc, timeframe, y_bars, x_bars, aligned, rolling_windows,
            hedge_result, z_window, corr_window, vol_window, adf_result,
            tail_rows, older_row, pp_result>>

igVars == <<ig_pc, attempt, msg_count, committed, pending, dropped, cause>>

fnVars == <<hrVars, zsVars, rsVars, ppVars, igVars>>

vars == <<schedVars, btVars, fnVars>>

\* ---------------------------------------------------------------- bounds
MaxIter == 2      \* cycles of the while loop that are explored
MaxTs == 2        \* distinct bar timestamps
MaxRows == 11     \* rows of analytics history the dashboard loads
MaxTrades == 2    \* trades one explored history closes
MaxLen == 3       \* points of a series handed to compute_zscore
MaxTicks == 3     \* rows of the tick frame handed to resample_prices
MaxTail == 2      \* trailing rows of aligned whose signals are told apart
MaxAttempts == 2  \* connections ingest_forever opens
MaxMsgs == 205    \* messages one connection receives

\* ---------------------------------------------------------- configuration
SYMBOL_PAIRS == << <<"BTCUSDT", "ETHUSDT">>, <<"ETHUSDT", "BNBUSDT">> >>
TIMEFRAMES == <<"1min">>

\* the values the computed columns of a record can take
Payloads == {"a", "b"}

\* entry_time = None (computations.py:156); times are row labels
NoTime == 0 - 1

\* no call has returned yet
NoResult == [kind |-> "pending"]

NoTxn == [active |-> FALSE, rows |-> EmptyBag]

Range(seq) == {seq[k] : k \in 1..Len(seq)}

Info(m) == [level |-> "INFO", msg |-> m]
Error(m) == [level |-> "ERROR", msg |-> m]

\* ------------------------------------------------------------------ store
\* natural key of a row: PRIMARY KEY (ts, timeframe, pair_y, pair_x)
Key(r) == <<r.ts, r.timeframe, r.pair_y, r.pair_x>>

\* INSERT into a table that enforces no uniqueness: the row is added
InsertAppend(tbl, rec) == tbl (+) SetToBag({rec})

\* INSERT OR REPLACE INTO analytics on PRIMARY KEY (ts, timeframe, pair_y,
\* pair_x): every row with the key of rec is deleted, then rec is inserted
InsertOrReplace(tbl, rec) ==
    [r \in {q \in DOMAIN tbl : Key(q) # Key(rec)} |-> tbl[r]] (+) SetToBag({rec})

\* each statement committed on its own (a connection in autocommit mode)
ExecuteAutocommit(rec) ==
    /\ store' = InsertOrReplace(store, rec)
    /\ txn' = [active |-> FALSE, rows |-> store']

\* cur.execute on a connection with the default isolation level: the
\* statement opens a transaction implicitly and changes only that
\* transaction's view; the committed table is untouched until commit()
Execute(rec) ==
    /\ txn' = [active |-> TRUE, rows |-> InsertOrReplace(txn.rows, rec)]
    /\ store' = store

\* the record process_pair_analytics returns for one pair and timeframe
MakeRecord(p, tf, ts, v) ==
    [ts |-> ts, timeframe |-> TIMEFRAMES[tf],
     pair_y |-> SYMBOL_PAIRS[p][1], pair_x |-> SYMBOL_PAIRS[p][2],
     payload |-> v]

\* GET /correlation: the '1min' rows whose ts is the maximum '1min' ts of
\* some pair
GetAllCorrelations(tbl) ==
    LET mine == {r \in DOMAIN tbl : r.timeframe = "1min"}
        maxTs == {q.ts : q \in {m \in mine :
                     \A o \in mine : (o.pair_y = m.pair_y /\ o.pair_x = m.pair_x)
                                         => o.ts <= m.ts}}
    IN [r \in {q \in mine : q.ts \in maxTs} |-> tbl[r]]

\* ------------------------------------------------------------- scheduler
\* an exception that leaves analytics_loop instead of being handled
HandleExceptionReraise(src) ==
    /\ pc' = "exited"
    /\ lastLog' = lastLog
    /\ txn' = NoTxn
    /\ wIdx' = 0

\* except Exception at engine.py:361: log the error, then time.sleep(2).
\* The connection of an unfinished batch_write_analytics is dropped without
\* commit, which rolls its transaction back.
HandleException(src) ==
    /\ pc' = "errsleep"
    /\ lastLog' = Error(src)
    /\ txn' = NoTxn
    /\ wIdx' = 0

SchedInit ==
    /\ pc = "top"
    /\ iteration = 0
    /\ pairIdx = 0
    /\ df_ticks = "empty"
    /\ data = "a"
    /\ tfIdx = 0
    /\ analytics_batch = <<>>
    /\ wIdx = 0
    /\ store = EmptyBag
    /\ txn = NoTxn
    /\ seen = EmptyBag
    /\ lastLog = Info("Analytics engine started")
    /\ signal = "none"
    /\ now = 1

\* the dashboard has not run a backtest
BtIdle ==
    /\ bt_pc = "idle"
    /\ scenario = FALSE
    /\ df_analytics = <<>>
    /\ entry_threshold = 20
    /\ exit_threshold = 5
    /\ df = <<>>
    /\ rowNum = 0
    /\ position = 0
    /\ entry_price = 0
    /\ entry_time = NoTime
    /\ trades = <<>>
    /\ result = NoResult

\* the ingestion process is not running
IgIdle ==
    /\ ig_pc = "idle"
    /\ attempt = 0
    /\ msg_count = 0
    /\ committed = 0
    /\ pending = 0
    /\ dropped = 0
    /\ cause = "none"

\* compute_hedge_ratio is not being called
HrIdle ==
    /\ hr_pc = "idle"
    /\ method = "ols"
    /\ len_y = 0
    /\ len_x = 0
    /\ overlap = 0
    /\ hr_result = NoResult

\* compute_zscore is not being called
ZsIdle ==
    /\ zs_pc = "idle"
    /\ window = 0
    /\ series = <<>>
    /\ later = <<>>
    /\ zs = <<>>
    /\ zs_later = <<>>

\* resample_prices is not being called
RsIdle ==
    /\ rs_pc = "idle"
    /\ ticks = <<>>
    /\ bars = <<>>

\* process_pair_analytics is not being called
PpIdle ==
    /\ pp_pc = "idle"
    /\ timeframe = "1min"
    /\ y_bars = 0
    /\ x_bars = 0
    /\ aligned = 0
    /\ rolling_windows = [zscore |-> 0, correlation |-> 0, volatility |-> 0]
    /\ hedge_result = NoResult
    /\ z_window = 0
    /\ corr_window = 0
    /\ vol_window = 0
    /\ adf_result = NoResult
    /\ tail_rows = <<>>
    /\ older_row = 0
    /\ pp_result = NoResult

Init == SchedInit /\ IgIdle /\ BtIdle /\ HrIdle /\ ZsIdle /\ RsIdle /\ PpIdle

\* while True: try: iteration += 1; analytics_batch = []; first pair
CycleStart ==
    /\ pc = "top"
    /\ iteration < MaxIter
    /\ iteration' = iteration + 1
    /\ analytics_batch' = <<>>
    /\ pairIdx' = 1
    /\ tfIdx' = 0
    /\ pc' = "load"
    /\ \E v \in Payloads : data' = v
    /\ UNCHANGED <<df_ticks, wIdx, store, txn, seen, lastLog, signal, now>>

\* control after the body of the pair loop for pair pairIdx
NextPair ==
    IF pairIdx < Len(SYMBOL_PAIRS)
    THEN /\ pairIdx' = pairIdx + 1
         /\ tfIdx' = 0
         /\ pc' = "load"
    ELSE /\ pairIdx' = 0
         /\ tfIdx' = 0
         /\ pc' = "write"

\* df_ticks = load_recent_ticks(pair_y, pair_x, LOOKBACK_MINUTES) returns
LoadTicks ==
    /\ pc = "load"
    /\ \E d \in {"empty", "rows"} : df_ticks' = d
    /\ pc' = "loaded"
    /\ UNCHANGED <<iteration, pairIdx, data, tfIdx, analytics_batch, wIdx, store, txn,
                   seen, lastLog, signal, now>>

\* load_recent_ticks raises (store locked, table missing)
LoadRaises ==
    /\ pc = "load"
    /\ HandleException("load_recent_ticks")
    /\ UNCHANGED <<iteration, pairIdx, df_ticks, data, tfIdx, analytics_batch, store,
                   seen, signal, now>>

\* the timeframe loop is entered whatever load_recent_ticks returned
CheckEmptyNoSkip ==
    /\ pc = "loaded"
    /\ tfIdx' = 1
    /\ pc' = "proc"
    /\ pairIdx' = pairIdx
    /\ UNCHANGED <<iteration, df_ticks, data, analytics_batch, wIdx, store, txn, seen,
                   lastLog, signal, now>>

\* if df_ticks.empty: continue (engine.py:319); else the timeframe loop
CheckEmpty ==
    /\ pc = "loaded"
    /\ IF df_ticks = "empty"
       THEN NextPair
       ELSE /\ tfIdx' = 1
            /\ pc' = "proc"
            /\ pairIdx' = pairIdx
    /\ UNCHANGED <<iteration, df_ticks, data, analytics_batch, wIdx, store, txn, seen,
                   lastLog, signal, now>>

\* control after the body of the timeframe loop
NextTimeframe ==
    IF tfIdx < Len(TIMEFRAMES)
    THEN /\ tfIdx' = tfIdx + 1
         /\ pc' = "proc"
         /\ pairIdx' = pairIdx
    ELSE NextPair

\* process_pair_analytics returns None: nothing appended
ProcessNone ==
    /\ pc = "proc"
    /\ NextTimeframe
    /\ UNCHANGED <<iteration, df_ticks, data, analytics_batch, wIdx, store, txn, seen,
                   lastLog, signal, now>>

\* process_pair_analytics returns a record: appended to the batch and logged
ProcessRecord ==
    /\ pc = "proc"
    /\ analytics_batch' =
          Append(analytics_batch, MakeRecord(pairIdx, tfIdx, now, data))
    /\ lastLog' = Info("record")
    /\ NextTimeframe
    /\ UNCHANGED <<iteration, df_ticks, data, wIdx, store, txn, seen, signal, now>>

\* process_pair_analytics raises (an estimator fails numerically)
ProcessRaises ==
    /\ pc = "proc"
    /\ HandleException("process_pair_analytics")
    /\ UNCHANGED <<iteration, pairIdx, df_ticks, data, tfIdx, analytics_batch, store,
                   seen, signal, now>>

\* if analytics_batch: batch_write_analytics(...) -> connect, cursor
WriteBegin ==
    /\ pc = "write"
    /\ IF analytics_batch = <<>>
       THEN /\ pc' = "sleep"
            /\ wIdx' = 0
            /\ txn' = txn
       ELSE /\ pc' = "exec"
            /\ wIdx' = 1
            /\ txn' = [active |-> FALSE, rows |-> store]
    /\ UNCHANGED <<iteration, pairIdx, df_ticks, data, tfIdx, analytics_batch, store,
                   seen, lastLog, signal, now>>

\* one cur.execute of the for loop at engine.py:274
WriteExecute ==
    /\ pc = "exec"
    /\ wIdx <= Len(analytics_batch)
    /\ Execute(analytics_batch[wIdx])
    /\ wIdx' = wIdx + 1
    /\ UNCHANGED <<pc, iteration, pairIdx, df_ticks, data, tfIdx, analytics_batch,
                   seen, lastLog, signal, now>>

\* cur.execute or conn.commit raises (database is locked, disk full)
WriteRaises ==
    /\ pc = "exec"
    /\ HandleException("batch_write_analytics")
    /\ UNCHANGED <<iteration, pairIdx, df_ticks, data, tfIdx, analytics_batch, store,
                   seen, signal, now>>

\* conn.commit(); conn.close(); logger.info("Wrote n analytics records")
WriteCommit ==
    /\ pc = "exec"
    /\ wIdx > Len(analytics_batch)
    /\ store' = txn.rows
    /\ txn' = NoTxn
    /\ wIdx' = 0
    /\ lastLog' = Info("Wrote")
    /\ pc' = "sleep"
    /\ UNCHANGED <<iteration, pairIdx, df_ticks, data, tfIdx, analytics_batch, seen,
                   signal, now>>

\* time.sleep(UPDATE_INTERVAL) returns; bars may have advanced meanwhile
Sleep ==
    /\ pc = "sleep"
    /\ pc' = "top"
    /\ \E t \in {now, now + 1} : t <= MaxTs /\ now' = t
    /\ UNCHANGED <<iteration, pairIdx, df_ticks, data, tfIdx, analytics_batch, wIdx,
                   store, txn, seen, lastLog, signal>>

\* time.sleep(2) of the except clause returns
ErrSleep ==
    /\ pc = "errsleep"
    /\ pc' = "top"
    /\ \E t \in {now, now + 1} : t <= MaxTs /\ now' = t
    /\ UNCHANGED <<iteration, pairIdx, df_ticks, data, tfIdx, analytics_batch, wIdx,
                   store, txn, seen, lastLog, signal>>

\* the process has ended: the locals of analytics_loop are gone and the
\* uncommitted transaction of its connection is discarded by SQLite
ProcessGone ==
    /\ iteration' = 0
    /\ pairIdx' = 0
    /\ df_ticks' = "empty"
    /\ data' = "a"
    /\ tfIdx' = 0
    /\ analytics_batch' = <<>>
    /\ wIdx' = 0
    /\ txn' = NoTxn

\* Ctrl+C: inside the try it is caught at engine.py:357, logged, and the loop
\* breaks; inside the except clause's sleep it leaves analytics_loop uncaught
KeyboardInterrupt ==
    /\ pc \in {"load", "loaded", "proc", "write", "exec", "sleep", "errsleep"}
    /\ signal' = "SIGINT"
    /\ pc' = IF pc = "errsleep" THEN "exited" ELSE "stopped"
    /\ lastLog' = IF pc = "errsleep" THEN lastLog
                  ELSE Info("Analytics engine stopped by user")
    /\ ProcessGone
    /\ UNCHANGED <<store, seen, now>>

\* the process is killed (SIGKILL, power loss) at any point, also partway
\* through batch_write_analytics
Kill ==
    /\ pc \in {"load", "loaded", "proc", "write", "exec", "sleep", "errsleep"}
    /\ signal' = "SIGKILL"
    /\ pc' = "killed"
    /\ ProcessGone
    /\ UNCHANGED <<store, seen, lastLog, now>>

\* a concurrent reader (the API's get_all_correlations) on its own
\* connection: it reads the committed table, never the writer's open
\* transaction
Reader ==
    /\ pc \in {"load", "loaded", "proc", "write", "exec", "sleep", "errsleep"}
    /\ seen' = GetAllCorrelations(store)
    /\ UNCHANGED <<pc, iteration, pairIdx, df_ticks, data, tfIdx, analytics_batch,
                   wIdx, store, txn, lastLog, signal, now>>

Next ==
    \/ CycleStart /\ UNCHANGED <<btVars, fnVars>>
    \/ LoadTicks /\ UNCHANGED <<btVars, fnVars>>
    \/ LoadRaises /\ UNCHANGED <<btVars, fnVars>>
    \/ CheckEmpty /\ UNCHANGED <<btVars, fnVars>>
    \/ ProcessNone /\ UNCHANGED <<btVars, fnVars>>
    \/ ProcessRecord /\ UNCHANGED <<btVars, fnVars>>
    \/ ProcessRaises /\ UNCHANGED <<btVars, fnVars>>
    \/ WriteBegin /\ UNCHANGED <<btVars, fnVars>>
    \/ WriteExecute /\ UNCHANGED <<btVars, fnVars>>
    \/ WriteRaises /\ UNCHANGED <<btVars, fnVars>>
    \/ WriteCommit /\ UNCHANGED <<btVars, fnVars>>
    \/ Sleep /\ UNCHANGED <<btVars, fnVars>>
    \/ ErrSleep /\ UNCHANGED <<btVars, fnVars>>
    \/ KeyboardInterrupt /\ UNCHANGED <<btVars, fnVars>>
    \/ Kill /\ UNCHANGED <<btVars, fnVars>>
    \/ Reader /\ UNCHANGED <<btVars, fnVars>>

Spec == Init /\ [][Next]_vars

\* time.sleep(2) returns and the while loop runs its next pass
LiveSpec == Init /\ [][Next]_vars /\ WF_schedVars(ErrSleep) /\ WF_schedVars(CycleStart)

\* --------------------------------------------------------------- backtest
\* computations.py:150: fewer rows than this and simple_backtest returns None
MinRows == 10

\* zscore values in tenths, around the thresholds the dashboard can pass
ZVals == {0 - 25, 0 - 20, 0 - 4, 0, 5, 15, 20, 25}

\* the rows (by ts) of a history that can hold a null spread or zscore
NullSpots == {1, 6}

\* (entry_z, exit_z) in tenths; the dashboard allows 1.0..4.0 and 0.0..2.0
Thresholds == {<<20, 5>>, <<10, 20>>, <<20, 0>>}

\* the spread history that sits at 0, spikes to 10 and returns to 0
ScenarioSpread == <<0, 0, 0, 0, 0, 10, 10, 10, 10, 10, 0, 0, 0, 0, 0>>

Abs(x) == IF x < 0 THEN 0 - x ELSE x

\* a quotient the code computes in floating point, kept exact
Ratio(n, d) == [num |-> n, den |-> d]

\* SELECT * FROM analytics WHERE ... ORDER BY ts DESC LIMIT ?, read by
\* pd.read_sql: n rows, newest first, labelled 0..n-1 by the default index
QueryDesc(hist) ==
    [k \in 1..Len(hist) |->
        [ts |-> Len(hist) - k + 1, label |-> k - 1,
         spread |-> hist[Len(hist) - k + 1].spread,
         null |-> hist[Len(hist) - k + 1].null]]

RECURSIVE InsertByTs(_, _)
\* sorted is ascending by ts: r goes before the first row with a larger ts
InsertByTs(sorted, r) ==
    IF sorted = <<>> THEN <<r>>
    ELSE IF r.ts < Head(sorted).ts THEN <<r>> \o sorted
    ELSE <<Head(sorted)>> \o InsertByTs(Tail(sorted), r)

RECURSIVE SortValuesTs(_)
\* df.sort_values("ts"): the rows in ascending ts, each keeping its label
SortValuesTs(rows) ==
    IF rows = <<>> THEN <<>>
    ELSE InsertByTs(SortValuesTs(Tail(rows)), Head(rows))

\* load_analytics(pair_y, pair_x, timeframe)
LoadAnalytics(hist) == SortValuesTs(QueryDesc(hist))

\* a stored spread history of n rows that moves between 0 and 10, with a
\* null value in the rows of nulls
ZigZag(n, nulls) ==
    [t \in 1..n |-> [spread |-> IF t % 2 = 1 THEN 0 ELSE 10, null |-> t \in nulls]]

\* the stored history of the baseline/spike/baseline series
SpikeHistory ==
    [t \in 1..Len(ScenarioSpread) |-> [spread |-> ScenarioSpread[t], null |-> FALSE]]

\* the frame with its null rows left in
KeepAllRows(frame) == frame

\* pd.DataFrame({'spread': spread, 'zscore': zscore}).dropna()
DropNa(frame) == SelectSeq(frame, LAMBDA r : ~r.null)

\* the zscore values the row of the history with timestamp t can hold: in
\* the scenario, inside the entry threshold on the first baseline, above it
\* on the spike, inside the exit threshold after the return
ZChoices(t) ==
    IF scenario
    THEN IF t <= 5 THEN {v \in ZVals : Abs(v) <= entry_threshold}
         ELSE IF t <= 10 THEN {v \in ZVals : v > entry_threshold}
         ELSE {v \in ZVals : Abs(v) < exit_threshold}
    ELSE ZVals

\* the trade dict with pnl taken as exit minus entry whatever the side
TradeUnsigned(st, idx, price) ==
    LET pnl == price - st.entry_price
    IN [entry_time |-> st.entry_time,
        exit_time |-> idx,
        entry_price |-> st.entry_price,
        exit_price |-> price,
        position |-> IF st.position = 0 - 1 THEN "SHORT" ELSE "LONG",
        pnl |-> pnl,
        return_pct |-> Ratio(pnl * 100, Abs(st.entry_price))]

\* the dict appended at computations.py:177
Trade(st, idx, price) ==
    LET pnl == st.position * (price - st.entry_price)
    IN [entry_time |-> st.entry_time,
        exit_time |-> idx,
        entry_price |-> st.entry_price,
        exit_price |-> price,
        position |-> IF st.position = 0 - 1 THEN "SHORT" ELSE "LONG",
        pnl |-> pnl,
        return_pct |-> Ratio(pnl * 100, Abs(st.entry_price))]

\* the entry branch alone, computations.py:163-171
Enter(st, idx, zz, price, entryT) ==
    IF zz > entryT
    THEN [st EXCEPT !.position = 0 - 1, !.entry_price = price, !.entry_time = idx]
    ELSE IF zz < 0 - entryT
    THEN [st EXCEPT !.position = 1, !.entry_price = price, !.entry_time = idx]
    ELSE st

\* the loop body with the exit check run after the entry check on the same
\* sample (if ... if instead of if ... elif)
OnSampleSameSample(st, idx, zz, price, entryT, exitT) ==
    LET opened == IF st.position = 0 THEN Enter(st, idx, zz, price, entryT)
                  ELSE st
    IN IF opened.position # 0 /\ Abs(zz) < exitT
       THEN [opened EXCEPT !.trades = Append(@, Trade(opened, idx, price)),
                           !.position = 0]
       ELSE opened

\* the loop body with the entry check run again on the sample that closed
\* a position
OnSampleReopen(st, idx, zz, price, entryT, exitT) ==
    LET closed == IF st.position # 0 /\ Abs(zz) < exitT
                  THEN [st EXCEPT !.trades = Append(@, Trade(st, idx, price)),
                                  !.position = 0]
                  ELSE st
    IN IF closed.position = 0 THEN Enter(closed, idx, zz, price, entryT)
       ELSE closed

\* the loop body closing also at |z| equal to the exit threshold
OnSampleExitInclusive(st, idx, zz, price, entryT, exitT) ==
    IF st.position = 0
    THEN Enter(st, idx, zz, price, entryT)
    ELSE IF st.position # 0 /\ Abs(zz) <= exitT
    THEN [st EXCEPT !.trades = Append(@, Trade(st, idx, price)),
                    !.position = 0]
    ELSE st

\* the loop body entering also at a z-score equal to the threshold
OnSampleInclusive(st, idx, zz, price, entryT, exitT) ==
    IF st.position = 0
    THEN IF zz >= entryT
         THEN [st EXCEPT !.position = 0 - 1, !.entry_price = price,
                         !.entry_time = idx]
         ELSE IF zz <= 0 - entryT
         THEN [st EXCEPT !.position = 1, !.entry_price = price,
                         !.entry_time = idx]
         ELSE st
    ELSE IF st.position # 0 /\ Abs(zz) < exitT
    THEN [st EXCEPT !.trades = Append(@, Trade(st, idx, price)),
                    !.position = 0]
    ELSE st

\* the loop body with the entry checks not guarded by position == 0
OnSampleReenter(st, idx, zz, price, entryT, exitT) ==
    IF zz > entryT
    THEN [st EXCEPT !.position = 0 - 1, !.entry_price = price, !.entry_time = idx]
    ELSE IF zz < 0 - entryT
    THEN [st EXCEPT !.position = 1, !.entry_price = price, !.entry_time = idx]
    ELSE IF st.position # 0 /\ Abs(zz) < exitT
    THEN [st EXCEPT !.trades = Append(@, Trade(st, idx, price)), !.position = 0]
    ELSE st

\* the loop body going long above the entry threshold and short below it
OnSampleSwapped(st, idx, zz, price, entryT, exitT) ==
    IF st.position = 0
    THEN IF zz > entryT
         THEN [st EXCEPT !.position = 1, !.entry_price = price,
                         !.entry_time = idx]
         ELSE IF zz < 0 - entryT
         THEN [st EXCEPT !.position = 0 - 1, !.entry_price = price,
                         !.entry_time = idx]
         ELSE st
    ELSE IF st.position # 0 /\ Abs(zz) < exitT
    THEN [st EXCEPT !.trades = Append(@, Trade(st, idx, price)),
                    !.position = 0]
    ELSE st

\* one pass of the loop body, computations.py:159-187, on the row labelled
\* idx with zscore zz and spread price
OnSample(st, idx, zz, price, entryT, exitT) ==
    IF st.position = 0
    THEN IF zz > entryT
         THEN [st EXCEPT !.position = 0 - 1, !.entry_price = price,
                         !.entry_time = idx]
         ELSE IF zz < 0 - entryT
         THEN [st EXCEPT !.position = 1, !.entry_price = price,
                         !.entry_time = idx]
         ELSE st
    ELSE IF st.position # 0 /\ Abs(zz) < exitT
    THEN [st EXCEPT !.trades = Append(@, Trade(st, idx, price)),
                    !.position = 0]
    ELSE st

RECURSIVE SumPnl(_)
SumPnl(tr) == IF tr = <<>> THEN 0 ELSE Head(tr).pnl + SumPnl(Tail(tr))

\* a summary only when there are trades, None otherwise
SummaryNoneWhenEmpty(tr) ==
    IF tr = <<>>
    THEN [kind |-> "None"]
    ELSE [kind |-> "summary", total_trades |-> Len(tr),
          total_pnl |-> SumPnl(tr), trades |-> tr]

\* the dict returned at computations.py:189-209
Summary(tr) ==
    IF tr = <<>>
    THEN [kind |-> "summary", total_trades |-> 0, total_pnl |-> 0,
          win_rate |-> 0, avg_pnl |-> 0, trades |-> <<>>]
    ELSE [kind |-> "summary",
          total_trades |-> Len(tr),
          total_pnl |-> SumPnl(tr),
          win_rate |-> Ratio(100 * Cardinality({k \in 1..Len(tr) : tr[k].pnl > 0}),
                             Len(tr)),
          avg_pnl |-> Ratio(SumPnl(tr), Len(tr)),
          avg_return_pct |-> [mean_of |-> [k \in 1..Len(tr) |-> tr[k].return_pct]],
          max_pnl |-> CHOOSE m \in {tr[k].pnl : k \in 1..Len(tr)} :
                          \A k \in 1..Len(tr) : tr[k].pnl <= m,
          min_pnl |-> CHOOSE m \in {tr[k].pnl : k \in 1..Len(tr)} :
                          \A k \in 1..Len(tr) : tr[k].pnl >= m,
          trades |-> tr]

\* the dashboard has loaded a history and chosen the thresholds (app.py:175,
\* 463-464) and is about to call simple_backtest
BtInit ==
    /\ SchedInit /\ IgIdle /\ HrIdle /\ ZsIdle /\ RsIdle /\ PpIdle
    /\ bt_pc = "call"
    /\ scenario \in BOOLEAN
    /\ IF scenario
       THEN /\ df_analytics = LoadAnalytics(SpikeHistory)
            /\ entry_threshold = 20
            /\ exit_threshold = 5
       ELSE /\ \E n \in 0..MaxRows :
                 \E nulls \in SUBSET (NullSpots \cap 1..n) :
                     df_analytics = LoadAnalytics(ZigZag(n, nulls))
            /\ \E th \in Thresholds :
                 /\ entry_threshold = th[1]
                 /\ exit_threshold = th[2]
    /\ df = <<>>
    /\ rowNum = 0
    /\ position = 0
    /\ entry_price = 0
    /\ entry_time = NoTime
    /\ trades = <<>>
    /\ result = NoResult

\* simple_backtest up to its for loop: dropna, the length check, the locals
BtCall ==
    /\ bt_pc = "call"
    /\ df' = DropNa(df_analytics)
    /\ IF Len(df') < MinRows
       THEN /\ result' = [kind |-> "None"]
            /\ bt_pc' = "returned"
       ELSE /\ result' = result
            /\ bt_pc' = "loop"
    /\ position' = 0
    /\ trades' = <<>>
    /\ entry_price' = 0
    /\ entry_time' = NoTime
    /\ UNCHANGED <<scenario, df_analytics, entry_threshold, exit_threshold,
                   rowNum>>

\* the locals of simple_backtest the loop body reads and writes
Locals ==
    [position |-> position, entry_price |-> entry_price,
     entry_time |-> entry_time, trades |-> trades]

\* one iteration of for idx, row in df.iterrows()
BtStep ==
    /\ bt_pc = "loop"
    /\ rowNum < Len(df)
    /\ \E zz \in ZChoices(df[rowNum + 1].ts) :
          LET st == OnSample(Locals, df[rowNum + 1].label, zz,
                             df[rowNum + 1].spread, entry_threshold,
                             exit_threshold)
          IN /\ Len(st.trades) <= MaxTrades
             /\ position' = st.position
             /\ entry_price' = st.entry_price
             /\ entry_time' = st.entry_time
             /\ trades' = st.trades
    /\ rowNum' = rowNum + 1
    /\ UNCHANGED <<bt_pc, scenario, df_analytics, entry_threshold,
                   exit_threshold, df, result>>

\* the loop is exhausted and a position still open is closed on the last row
BtReturnClosing ==
    /\ bt_pc = "loop"
    /\ rowNum = Len(df)
    /\ IF position # 0
       THEN /\ trades' = Append(trades, Trade(Locals, df[Len(df)].label,
                                              df[Len(df)].spread))
            /\ position' = 0
       ELSE UNCHANGED <<position, trades>>
    /\ result' = Summary(trades')
    /\ bt_pc' = "returned"
    /\ UNCHANGED <<scenario, df_analytics, entry_threshold, exit_threshold, df,
                   rowNum, entry_price, entry_time>>

\* the loop is exhausted: the summary is returned
BtReturn ==
    /\ bt_pc = "loop"
    /\ rowNum = Len(df)
    /\ result' = Summary(trades)
    /\ bt_pc' = "returned"
    /\ UNCHANGED <<scenario, df_analytics, entry_threshold, exit_threshold, df,
                   rowNum, position, entry_price, entry_time, trades>>

BtNext ==
    \/ BtCall /\ UNCHANGED <<schedVars, fnVars>>
    \/ BtStep /\ UNCHANGED <<schedVars, fnVars>>
    \/ BtReturn /\ UNCHANGED <<schedVars, fnVars>>

BacktestSpec == BtInit /\ [][BtNext]_vars

\* ---------------------------------------------------- compute_hedge_ratio
\* computations.py:20,24: fewer observations than this give None
MinObs == 10

\* the documented selectors (computations.py:15) and one that is not
HedgeMethods == {"ols", "huber", "theilsen", "lasso"}

\* lengths around MinObs
SeriesLens == {0, MinObs - 1, MinObs, MinObs + 2}

None == [kind |-> "None"]

Raised(e) == [kind |-> "raise", error |-> e]

\* compute_hedge_ratio on series of ly and lx points of which ov rows have
\* both values; fits tells whether the estimator ran through (it raises
\* otherwise, e.g. params['const'] is missing when x is constant)
ComputeHedgeRatio(ly, lx, ov, m, fits) ==
    IF ly < MinObs \/ lx < MinObs
    THEN None
    ELSE IF ov < MinObs
    THEN None
    ELSE IF m = "ols"
    THEN IF fits THEN [kind |-> "fit", r_squared |-> "value"]
         ELSE Raised("estimator")
    ELSE IF m = "huber"
    THEN IF fits THEN [kind |-> "fit", r_squared |-> "null"]
         ELSE Raised("estimator")
    ELSE IF m = "theilsen"
    THEN IF fits THEN [kind |-> "fit", r_squared |-> "null"]
         ELSE Raised("estimator")
    ELSE Raised("ValueError")

\* a caller is about to call compute_hedge_ratio(y, x, method)
HrInit ==
    /\ SchedInit /\ IgIdle /\ BtIdle /\ ZsIdle /\ RsIdle /\ PpIdle
    /\ hr_pc = "call"
    /\ method \in HedgeMethods
    /\ len_y \in SeriesLens
    /\ len_x \in SeriesLens
    /\ overlap \in {n \in SeriesLens : n <= len_y /\ n <= len_x}
    /\ hr_result = NoResult

HrCall ==
    /\ hr_pc = "call"
    /\ \E fits \in BOOLEAN :
         hr_result' = ComputeHedgeRatio(len_y, len_x, overlap, method, fits)
    /\ hr_pc' = "returned"
    /\ UNCHANGED <<method, len_y, len_x, overlap>>

HrNext ==
    \/ HrCall /\ UNCHANGED <<igVars, schedVars, btVars, zsVars, rsVars, ppVars>>

HedgeSpec == HrInit /\ [][HrNext]_vars

\* --------------------------------------------------------- compute_zscore
\* the values a spread sample takes
SeriesVals == {0, 1, 3}

\* the window argument
Windows == {2, 3}

SeriesOfLen(n) == [1..n -> SeriesVals]

\* NaN, as a z-score and as a rolling statistic
Null == [kind |-> "null"]

Stat(v) == [kind |-> "val", v |-> v]

SumSeq(s) ==
    LET RECURSIVE Go(_)
        Go(k) == IF k = 0 THEN 0 ELSE s[k] + Go(k - 1)
    IN Go(Len(s))

SumSq(s) ==
    LET RECURSIVE Go(_)
        Go(k) == IF k = 0 THEN 0 ELSE s[k] * s[k] + Go(k - 1)
    IN Go(Len(s))

\* the w samples ending at position t
WindowAt(s, w, t) == SubSeq(s, t - w + 1, t)

\* series.rolling(w).mean() at position t, times w; NaN before a full window
RollingMean(s, w, t) ==
    IF t < w THEN Null ELSE Stat(SumSeq(WindowAt(s, w, t)))

\* series.rolling(w).std() at position t, as w * (w - 1) times its square;
\* NaN before a full window
RollingStd(s, w, t) ==
    IF t < w THEN Null
    ELSE Stat(w * SumSq(WindowAt(s, w, t))
              - SumSeq(WindowAt(s, w, t)) * SumSeq(WindowAt(s, w, t)))

\* a zero deviation replaced by one instead of NaN
ReplaceZeroWithOne(std) ==
    IF std.kind = "val" /\ std.v = 0 THEN Stat(1) ELSE std

\* std.replace(0, np.nan), computations.py:68
ReplaceZero(std) ==
    IF std.kind = "val" /\ std.v = 0 THEN Null ELSE std

\* (series - mean) / std at one position: NaN operands give NaN, a zero
\* divisor gives NaN for a zero numerator and an infinity otherwise, with no
\* exception; a finite quotient is kept as numerator dev and divisor varN
Divide(x, w, mean, std) ==
    IF mean.kind = "null" \/ std.kind = "null" THEN Null
    ELSE IF std.v = 0
    THEN IF w * x - mean.v = 0 THEN Null ELSE [kind |-> "inf"]
    ELSE [kind |-> "val", dev |-> w * x - mean.v, varN |-> std.v]

\* the z-score with a window centred on t instead of ending at t
ZAtCentred(s, w, t) ==
    IF t + 1 > Len(s) THEN Null
    ELSE Divide(s[t], w, RollingMean(s, w, t + 1),
                ReplaceZero(RollingStd(s, w, t + 1)))

\* the value of compute_zscore's result at position t, computations.py:64-70
ZAt(s, w, t) ==
    Divide(s[t], w, RollingMean(s, w, t), ReplaceZero(RollingStd(s, w, t)))

\* compute_zscore(series, window)
ComputeZscore(s, w) ==
    IF Len(s) < w
    THEN [t \in 1..Len(s) |-> Null]
    ELSE [t \in 1..Len(s) |-> ZAt(s, w, t)]

\* a caller holds a series and a window; later is a copy of the series
ZsInit ==
    /\ SchedInit /\ IgIdle /\ BtIdle /\ HrIdle /\ RsIdle /\ PpIdle
    /\ zs_pc = "call"
    /\ window \in Windows
    /\ \E n \in 0..MaxLen : series \in SeriesOfLen(n)
    /\ later = series
    /\ zs = <<>>
    /\ zs_later = <<>>

\* one sample of the copy takes another value
ZsPerturb ==
    /\ zs_pc = "call"
    /\ \E k \in 1..Len(later), v \in SeriesVals :
         /\ v # later[k]
         /\ later' = [later EXCEPT ![k] = v]
    /\ UNCHANGED <<zs_pc, window, series, zs, zs_later>>

\* one more sample arrives on the copy
ZsExtend ==
    /\ zs_pc = "call"
    /\ Len(later) < MaxLen
    /\ \E v \in SeriesVals : later' = Append(later, v)
    /\ UNCHANGED <<zs_pc, window, series, zs, zs_later>>

ZsCall ==
    /\ zs_pc = "call"
    /\ zs' = ComputeZscore(series, window)
    /\ zs_pc' = "called"
    /\ UNCHANGED <<window, series, later, zs_later>>

ZsCallLater ==
    /\ zs_pc = "called"
    /\ zs_later' = ComputeZscore(later, window)
    /\ zs_pc' = "done"
    /\ UNCHANGED <<window, series, later, zs>>

ZsNext ==
    \/ ZsPerturb /\ UNCHANGED <<igVars, schedVars, btVars, hrVars, rsVars, ppVars>>
    \/ ZsExtend /\ UNCHANGED <<igVars, schedVars, btVars, hrVars, rsVars, ppVars>>
    \/ ZsCall /\ UNCHANGED <<igVars, schedVars, btVars, hrVars, rsVars, ppVars>>
    \/ ZsCallLater /\ UNCHANGED <<igVars, schedVars, btVars, hrVars, rsVars, ppVars>>

ZscoreSpec == ZsInit /\ [][ZsNext]_vars

\* -------------------------------------------------------- resample_prices
\* the timeframe argument, in time units
BucketWidth == 2

Symbols == {"Y", "X"}

\* tick timestamps: on and off the bucket grid, leaving a bucket empty
TickTimes == {0, 1, 2, 4}

Prices == {1, 2}

Qtys == {1, 2}

TickRows == [ts : TickTimes, symbol : Symbols, price : Prices, qty : Qtys]

\* frames load_recent_ticks can return: ORDER BY ts ASC (engine.py:107)
TickFrames ==
    UNION {{f \in [1..n -> TickRows] :
               \A k \in 1..(n - 1) : f[k].ts <= f[k + 1].ts} : n \in 0..MaxTicks}

\* the bin resample(timeframe) puts a timestamp in, named by its left edge:
\* bins are [edge, edge + width) for second and minute frequencies
BucketLabel(ts) == ts - (ts % BucketWidth)

SumQty(rows) ==
    LET RECURSIVE Go(_)
        Go(k) == IF k = 0 THEN 0 ELSE rows[k].qty + Go(k - 1)
    IN Go(Len(rows))

\* df['symbol'].unique(): symbols in order of first appearance
UniqueSymbols(frame) ==
    LET RECURSIVE Go(_)
        Go(k) == IF k = 0 THEN <<>>
                 ELSE IF frame[k].symbol \in Range(Go(k - 1))
                      THEN Go(k - 1)
                      ELSE Append(Go(k - 1), frame[k].symbol)
    IN Go(Len(frame))

\* the bars frame of one symbol, engine.py:138-152: one row per bin from the
\* first to the last tick of the symbol; last() of an empty bin is NaN,
\* sum() of an empty bin is 0
SymbolBars(frame, sym) ==
    LET symbol_df == SelectSeq(frame, LAMBDA r : r.symbol = sym)
        first == BucketLabel(symbol_df[1].ts)
        last == BucketLabel(symbol_df[Len(symbol_df)].ts)
        Bar(b) ==
            LET in == SelectSeq(symbol_df, LAMBDA r : BucketLabel(r.ts) = b)
            IN [ts |-> b, symbol |-> sym,
                nan |-> (in = <<>>),
                price |-> IF in = <<>> THEN 0 ELSE in[Len(in)].price,
                volume |-> SumQty(in)]
    IN [k \in 1..((last - first) \div BucketWidth + 1) |->
            Bar(first + (k - 1) * BucketWidth)]

\* pd.concat(resampled_list, ignore_index=True)
ConcatBars(frame) ==
    LET syms == UniqueSymbols(frame)
        RECURSIVE Go(_)
        Go(k) == IF k = 0 THEN <<>>
                 ELSE Go(k - 1) \o SymbolBars(frame, syms[k])
    IN Go(Len(syms))

Columns(r) ==
    [ts |-> r.ts, symbol |-> r.symbol, price |-> r.price, volume |-> r.volume]

\* every row kept, whether or not its price is NaN
KeepAllBars(rows) ==
    [k \in 1..Len(rows) |-> Columns(rows[k])]

\* result.dropna(), engine.py:160
DropNaBars(rows) ==
    LET kept == SelectSeq(rows, LAMBDA r : ~r.nan)
    IN [k \in 1..Len(kept) |-> Columns(kept[k])]

\* resample_prices(df, timeframe); the empty frame has the four columns and
\* no row
ResamplePrices(frame) ==
    IF frame = <<>> THEN <<>> ELSE DropNaBars(ConcatBars(frame))

\* a caller holds a tick frame
RsInit ==
    /\ SchedInit /\ IgIdle /\ BtIdle /\ HrIdle /\ ZsIdle /\ PpIdle
    /\ rs_pc = "call"
    /\ ticks \in TickFrames
    /\ bars = <<>>

RsCall ==
    /\ rs_pc = "call"
    /\ bars' = ResamplePrices(ticks)
    /\ rs_pc' = "returned"
    /\ UNCHANGED ticks

RsNext ==
    \/ RsCall /\ UNCHANGED <<igVars, schedVars, btVars, hrVars, zsVars, ppVars>>

ResampleSpec == RsInit /\ [][RsNext]_vars

\* ------------------------------------------------- process_pair_analytics
\* engine.py:212: fewer aligned rows than this give None
MinAligned == 30

\* computations.py:80: fewer non-null observations than this give None
MinAdfObs == 50

\* computations.py:92: the 0.05 level, in thousandths
Alpha == 50

\* timeframes of min_bars_map and one that is not in it
TimeframeArgs == {"1s", "1min", "5min", "15min"}

\* bar counts around every threshold of the function
BarCounts == {0, 5, 6, 9, 10, 29, 30, 40, 49, 50, 61}

\* ROLLING_WINDOWS: the defaults of the .get calls at engine.py:220-228 and
\* two other settings
WindowConfigs ==
    {[zscore |-> 30, correlation |-> 60, volatility |-> 20],
     [zscore |-> 60, correlation |-> 30, volatility |-> 20],
     [zscore |-> 20, correlation |-> 20, volatility |-> 60]}

\* p-values adfuller reports, in thousandths
PVals == {0, 49, 50, 51, 1000}

\* what adfuller does: raise, or report a statistic and a p-value
AdfOutcomes ==
    {Raised("adfuller")}
        \cup {[kind |-> "result", statistic |-> 0 - 3, p_value |-> p] : p \in PVals}

Min(a, b) == IF a <= b THEN a ELSE b

Max(a, b) == IF a >= b THEN a ELSE b

\* every timeframe needs the same few bars
RequiredBarsFlat(tf) == 6

\* min_bars_map.get(timeframe, 30), engine.py:181-187
RequiredBars(tf) ==
    IF tf = "1s" THEN 30
    ELSE IF tf = "1min" THEN 10
    ELSE IF tf = "5min" THEN 6
    ELSE 30

\* the configured window, whatever the data length
EffectiveWindowUncapped(configured, n) == configured

\* min(configured, max(3, len(aligned))), engine.py:220,223,228
EffectiveWindow(configured, n) == Min(configured, Max(3, n))

\* a p-value at the level counts as stationary
IsStationaryInclusive(p) == p <= Alpha

\* result[1] < 0.05, computations.py:92
IsStationary(p) == p < Alpha

\* the test attempted whatever the number of observations
ComputeAdfTestAlways(n, out) ==
    IF out.kind = "raise"
    THEN None
    ELSE [kind |-> "adf", adf_statistic |-> out.statistic,
          p_value |-> out.p_value, is_stationary |-> IsStationary(out.p_value)]

\* compute_adf_test on a series with n non-null values, computations.py:73-95
ComputeAdfTest(n, out) ==
    IF n < MinAdfObs
    THEN None
    ELSE IF out.kind = "raise"
    THEN None
    ELSE [kind |-> "adf", adf_statistic |-> out.statistic,
          p_value |-> out.p_value, is_stationary |-> IsStationary(out.p_value)]

\* the frames aligned can be at engine.py:236 in its last rows, for n rows
\* and windows zw and cw: a row before a full window has NaN (rolling
\* min_periods), a row with a full window has a value, or NaN when the
\* window has no deviation
TailFrames(n, zw, cw) ==
    LET len == Min(MaxTail, n)
        Cells(ts, w) == IF ts >= w THEN {"value", "nan"} ELSE {"nan"}
    IN {f \in [1..len -> [ts : (n - len + 1)..n,
                          zscore : {"value", "nan"},
                          correlation : {"value", "nan"}]] :
           \A k \in 1..len :
               /\ f[k].ts = n - len + k
               /\ f[k].zscore \in Cells(f[k].ts, zw)
               /\ f[k].correlation \in Cells(f[k].ts, cw)}

\* the bar numbers the last row without NaN before the tail can have: none
\* (0), or the one just before the tail when it has full windows
OlderRows(n, zw, cw) ==
    LET before == n - Min(MaxTail, n)
    IN IF before >= Max(zw, cw) THEN {0, before} ELSE {0}

\* all the rows, NaN or not
KeepNaRows(tail, older) ==
    (IF older > 0
     THEN <<[ts |-> older, zscore |-> "value", correlation |-> "value"]>>
     ELSE <<>>) \o tail

\* aligned.dropna(), engine.py:236, on the older row and the tail
DropNaRows(tail, older) ==
    (IF older > 0
     THEN <<[ts |-> older, zscore |-> "value", correlation |-> "value"]>>
     ELSE <<>>)
        \o SelectSeq(tail, LAMBDA r : r.zscore = "value" /\ r.correlation = "value")

\* the dict built at engine.py:245-261 from the row latest; the computed
\* floats are "value", float(NaN) is "nan"
AnalyticsRecord(tf, hedge, adf, latest) ==
    [kind |-> "record",
     ts |-> latest.ts,
     timeframe |-> tf,
     correlation |-> IF latest.correlation = "value" THEN "value" ELSE "null",
     hedge_ratio |-> "value",
     alpha |-> "value",
     r_squared |-> hedge.r_squared,
     spread |-> "value",
     zscore |-> latest.zscore,
     adf_statistic |-> IF adf.kind = "adf" THEN Stat(adf.adf_statistic) ELSE Null,
     adf_pvalue |-> IF adf.kind = "adf" THEN Stat(adf.p_value) ELSE Null,
     is_stationary |-> IF adf.kind = "adf"
                       THEN Stat(IF adf.is_stationary THEN 1 ELSE 0)
                       ELSE Null]

\* analytics_loop is about to call process_pair_analytics on the ticks of a
\* pair
PpInit ==
    /\ SchedInit /\ IgIdle /\ BtIdle /\ HrIdle /\ ZsIdle /\ RsIdle
    /\ pp_pc = "call"
    /\ timeframe \in TimeframeArgs
    /\ y_bars \in BarCounts
    /\ x_bars \in BarCounts
    /\ aligned \in {n \in BarCounts : n <= y_bars /\ n <= x_bars}
    /\ rolling_windows \in WindowConfigs
    /\ hedge_result = NoResult
    /\ z_window = 0
    /\ corr_window = 0
    /\ vol_window = 0
    /\ adf_result = NoResult
    /\ tail_rows = <<>>
    /\ older_row = 0
    /\ pp_result = NoResult

PpReturn(v) ==
    /\ pp_result' = v
    /\ pp_pc' = "returned"

\* engine.py:171-178
PpResample ==
    /\ pp_pc = "call"
    /\ IF y_bars = 0 /\ x_bars = 0
       THEN PpReturn(None)
       ELSE pp_pc' = "minbars" /\ UNCHANGED pp_result
    /\ UNCHANGED <<timeframe, y_bars, x_bars, aligned, rolling_windows, tail_rows,
                   older_row,
                   hedge_result, z_window, corr_window, vol_window, adf_result>>

\* engine.py:181-190
PpMinBars ==
    /\ pp_pc = "minbars"
    /\ IF y_bars < RequiredBars(timeframe) \/ x_bars < RequiredBars(timeframe)
       THEN PpReturn(None)
       ELSE pp_pc' = "hedge" /\ UNCHANGED pp_result
    /\ UNCHANGED <<timeframe, y_bars, x_bars, aligned, rolling_windows, tail_rows,
                   older_row,
                   hedge_result, z_window, corr_window, vol_window, adf_result>>

\* engine.py:199-206; an exception of the estimator leaves the function
PpHedge ==
    /\ pp_pc = "hedge"
    /\ \E fits \in BOOLEAN :
         hedge_result' = ComputeHedgeRatio(y_bars, x_bars, aligned, "ols", fits)
    /\ IF hedge_result'.kind = "None" THEN PpReturn(None)
       ELSE IF hedge_result'.kind = "raise" THEN PpReturn(hedge_result')
       ELSE pp_pc' = "align" /\ UNCHANGED pp_result
    /\ UNCHANGED <<timeframe, y_bars, x_bars, aligned, rolling_windows, tail_rows,
                   older_row,
                   z_window, corr_window, vol_window, adf_result>>

\* the aligned frame taken whatever its length
PpAlignNoCheck ==
    /\ pp_pc = "align"
    /\ pp_pc' = "windows"
    /\ UNCHANGED <<timeframe, y_bars, x_bars, aligned, rolling_windows, tail_rows,
                   older_row, hedge_result, z_window, corr_window, vol_window,
                   adf_result, pp_result>>

\* engine.py:209-216
PpAlign ==
    /\ pp_pc = "align"
    /\ IF aligned < MinAligned
       THEN PpReturn(None)
       ELSE pp_pc' = "windows" /\ UNCHANGED pp_result
    /\ UNCHANGED <<timeframe, y_bars, x_bars, aligned, rolling_windows, tail_rows,
                   older_row,
                   hedge_result, z_window, corr_window, vol_window, adf_result>>

\* engine.py:220-230
PpWindows ==
    /\ pp_pc = "windows"
    /\ z_window' = EffectiveWindow(rolling_windows.zscore, aligned)
    /\ corr_window' = EffectiveWindow(rolling_windows.correlation, aligned)
    /\ vol_window' = EffectiveWindow(rolling_windows.volatility, aligned)
    /\ pp_pc' = "adf"
    /\ UNCHANGED <<timeframe, y_bars, x_bars, aligned, rolling_windows, tail_rows,
                   older_row,
                   hedge_result, adf_result, pp_result>>

\* engine.py:233; the spread has one non-null value per aligned row
PpAdf ==
    /\ pp_pc = "adf"
    /\ \E out \in AdfOutcomes : adf_result' = ComputeAdfTest(aligned, out)
    /\ pp_pc' = "latest"
    /\ UNCHANGED <<timeframe, y_bars, x_bars, aligned, rolling_windows, tail_rows,
                   older_row,
                   hedge_result, z_window, corr_window, vol_window, pp_result>>

\* engine.py:236-263: the rows without NaN, then None when there is none or
\* the record of the last one
PpLatest ==
    /\ pp_pc = "latest"
    /\ tail_rows' \in TailFrames(aligned, z_window, corr_window)
    /\ older_row' \in OlderRows(aligned, z_window, corr_window)
    /\ LET kept == DropNaRows(tail_rows', older_row')
       IN IF kept = <<>>
          THEN PpReturn(None)
          ELSE PpReturn(AnalyticsRecord(timeframe, hedge_result, adf_result,
                                        kept[Len(kept)]))
    /\ UNCHANGED <<timeframe, y_bars, x_bars, aligned, rolling_windows,
                   hedge_result, z_window, corr_window, vol_window, adf_result>>

PpNext ==
    \/ PpResample /\ UNCHANGED <<igVars, schedVars, btVars, hrVars, zsVars, rsVars>>
    \/ PpMinBars /\ UNCHANGED <<igVars, schedVars, btVars, hrVars, zsVars, rsVars>>
    \/ PpHedge /\ UNCHANGED <<igVars, schedVars, btVars, hrVars, zsVars, rsVars>>
    \/ PpAlign /\ UNCHANGED <<igVars, schedVars, btVars, hrVars, zsVars, rsVars>>
    \/ PpWindows /\ UNCHANGED <<igVars, schedVars, btVars, hrVars, zsVars, rsVars>>
    \/ PpAdf /\ UNCHANGED <<igVars, schedVars, btVars, hrVars, zsVars, rsVars>>
    \/ PpLatest /\ UNCHANGED <<igVars, schedVars, btVars, hrVars, zsVars, rsVars>>

PairSpec == PpInit /\ [][PpNext]_vars

\* ------------------------------------------------------------ ingestion
\* ws_ingest.py:89: a commit every this many messages
CommitEvery == 100

\* every message is committed
CommitDueAlways(n) == TRUE

\* msg_count % 100 == 0, ws_ingest.py:89
CommitDue(n) == n % CommitEvery = 0

\* the connection ends with exception e: both context managers exit, the
\* database connection is closed without commit and its rows are rolled back;
\* ingest_forever catches e (ws_ingest.py:108-114)
IgFail(e) ==
    /\ dropped' = pending
    /\ pending' = 0
    /\ cause' = e
    /\ ig_pc' = "sleep"
    /\ UNCHANGED <<attempt, msg_count, committed>>

\* ingest_forever has created the schema and enters its loop
IgInit ==
    /\ SchedInit /\ BtIdle /\ HrIdle /\ ZsIdle /\ RsIdle /\ PpIdle
    /\ ig_pc = "top"
    /\ attempt = 0
    /\ msg_count = 0
    /\ committed = 0
    /\ pending = 0
    /\ dropped = 0
    /\ cause = "none"

\* ws_ingest.py:102-106
IgAttempt ==
    /\ ig_pc = "top"
    /\ attempt < MaxAttempts
    /\ attempt' = attempt + 1
    /\ ig_pc' = "connect"
    /\ UNCHANGED <<msg_count, committed, pending, dropped, cause>>

\* ws_ingest.py:63-69: both connections open, msg_count = 0
IgConnect ==
    /\ ig_pc = "connect"
    /\ msg_count' = 0
    /\ pending' = 0
    /\ ig_pc' = "recv"
    /\ UNCHANGED <<attempt, committed, dropped, cause>>

\* ws_ingest.py:63: websockets.connect raises
IgConnectFails ==
    /\ ig_pc = "connect"
    /\ IgFail("Exception")

\* ws_ingest.py:72-89: a message is received, parsed and inserted
IgRecv ==
    /\ ig_pc = "recv"
    /\ msg_count < MaxMsgs
    /\ msg_count' = msg_count + 1
    /\ pending' = pending + 1
    /\ ig_pc' = IF CommitDue(msg_count') THEN "commit" ELSE "recv"
    /\ UNCHANGED <<attempt, committed, dropped, cause>>

\* ws_ingest.py:90
IgCommit ==
    /\ ig_pc = "commit"
    /\ committed' = committed + pending
    /\ pending' = 0
    /\ ig_pc' = "recv"
    /\ UNCHANGED <<attempt, msg_count, dropped, cause>>

\* ws_ingest.py:90: the commit raises (e.g. the database is locked)
IgCommitFails ==
    /\ ig_pc = "commit"
    /\ IgFail("Exception")

\* ws_ingest.py:72: ws.recv() raises ConnectionClosed
IgConnectionClosed ==
    /\ ig_pc = "recv"
    /\ IgFail("ConnectionClosed")

\* ws_ingest.py:73-84: a message cannot be parsed or inserted
IgBadMessage ==
    /\ ig_pc = "recv"
    /\ IgFail("Exception")

\* ws_ingest.py:110,114: asyncio.sleep(RECONNECT_DELAY), then the loop again
IgSleep ==
    /\ ig_pc = "sleep"
    /\ ig_pc' = "top"
    /\ UNCHANGED <<attempt, msg_count, committed, pending, dropped, cause>>

\* ws_ingest.py:118-121: KeyboardInterrupt ends asyncio.run; an open
\* connection is closed without commit
IgStop ==
    /\ ig_pc \in {"top", "connect", "recv", "commit", "sleep"}
    /\ ig_pc' = "stopped"
    /\ cause' = "KeyboardInterrupt"
    /\ IF ig_pc \in {"recv", "commit"}
       THEN dropped' = pending
       ELSE UNCHANGED dropped
    /\ pending' = 0
    /\ UNCHANGED <<attempt, msg_count, committed>>

IgNext ==
    \/ IgAttempt /\ UNCHANGED <<schedVars, btVars, hrVars, zsVars, rsVars, ppVars>>
    \/ IgConnect /\ UNCHANGED <<schedVars, btVars, hrVars, zsVars, rsVars, ppVars>>
    \/ IgConnectFails /\ UNCHANGED <<schedVars, btVars, hrVars, zsVars, rsVars, ppVars>>
    \/ IgRecv /\ UNCHANGED <<schedVars, btVars, hrVars, zsVars, rsVars, ppVars>>
    \/ IgCommit /\ UNCHANGED <<schedVars, btVars, hrVars, zsVars, rsVars, ppVars>>
    \/ IgCommitFails /\ UNCHANGED <<schedVars, btVars, hrVars, zsVars, rsVars, ppVars>>
    \/ IgConnectionClosed /\ UNCHANGED <<schedVars, btVars, hrVars, zsVars, rsVars, ppVars>>
    \/ IgBadMessage /\ UNCHANGED <<schedVars, btVars, hrVars, zsVars, rsVars, ppVars>>
    \/ IgSleep /\ UNCHANGED <<schedVars, btVars, hrVars, zsVars, rsVars, ppVars>>
    \/ IgStop /\ UNCHANGED <<schedVars, btVars, hrVars, zsVars, rsVars, ppVars>>

\* the sleep of the handler ends and the while loop goes on
IngestSpec ==
    IgInit /\ [][IgNext]_vars /\ WF_igVars(IgSleep) /\ WF_igVars(IgAttempt)

\* ------------------------------------------------------- scheduler claims
UnitFailures == {"load_recent_ticks", "process_pair_analytics"}

RECURSIVE ApplyBatch(_, _)
\* the table after INSERT OR REPLACE of every record of batch, in order
ApplyBatch(tbl, batch) ==
    IF batch = <<>> THEN tbl
    ELSE ApplyBatch(InsertOrReplace(tbl, Head(batch)), Tail(batch))

OneRowPerKey(tbl) ==
    \A r \in DOMAIN tbl :
        /\ tbl[r] = 1
        /\ \A q \in DOMAIN tbl : Key(q) = Key(r) => q = r

\* C1: an exception raised by one pair/timeframe (process_pair_analytics or
\* the pair's tick load) does not abort the cycle: it never reaches the
\* cycle-level handler, and the records the cycle had already computed are
\* persisted by the time the loop is back at its head.
C1_UnitFailureDoesNotAbortCycle ==
    /\ pc = "errsleep" => lastLog.msg \notin UnitFailures
    /\ (pc = "top" /\ lastLog.level = "ERROR" /\ lastLog.msg \in UnitFailures)
          => \A i \in 1..Len(analytics_batch) : BagIn(analytics_batch[i], store)

\* C2: the committed table changes only by a commit that installs the whole
\* batch of the cycle at once; no step (a single execute, a failed write, an
\* interrupt, a kill) leaves a strict part of a batch committed, so no
\* reader can see one.
C2_BatchAllOrNothing ==
    [][store' # store =>
          /\ pc = "exec"
          /\ pc' = "sleep"
          /\ store' = ApplyBatch(store, analytics_batch)]_vars

\* partway through a batch of two records: the first is written in the open
\* transaction and is not in the committed table
C2_Witness ==
    /\ pc = "exec"
    /\ wIdx = 2
    /\ Len(analytics_batch) = 2
    /\ BagIn(analytics_batch[1], txn.rows)
    /\ ~BagIn(analytics_batch[1], store)

\* C3: the table holds at most one row per natural key (ts, timeframe,
\* pair_y, pair_x), in the committed table and in the open transaction, and
\* after a batch is committed the one row of each of its keys is the record
\* just written.
C3_OneRowPerKey ==
    /\ OneRowPerKey(store)
    /\ OneRowPerKey(txn.rows)
    /\ (pc = "sleep" /\ analytics_batch # <<>>) =>
          \A i \in 1..Len(analytics_batch) :
              {r \in DOMAIN store : Key(r) = Key(analytics_batch[i])}
                 = {analytics_batch[i]}

\* a batch was committed over a row a reader had seen earlier with the same
\* key and other values: the table now holds the new record
C3_Witness ==
    /\ pc = "sleep"
    /\ \E i \in 1..Len(analytics_batch) : \E r \in DOMAIN seen :
          /\ Key(r) = Key(analytics_batch[i])
          /\ r.payload # analytics_batch[i].payload
          /\ BagIn(analytics_batch[i], store)

\* C4: after an exception reached the cycle-level handler a new cycle
\* begins unless a termination signal arrives first, and the loop is left
\* only by a termination signal.
C4_RetryAfterFailedCycle ==
    /\ (pc = "errsleep" /\ iteration < MaxIter) ~> (pc = "load" \/ signal # "none")
    /\ [](pc \in {"stopped", "exited", "killed"} => signal # "none")

\* a new cycle has begun right after a logged failure
C4_Witness ==
    /\ pc = "load"
    /\ iteration >= 2
    /\ lastLog.level = "ERROR"
    /\ signal = "none"

\* C10: process_pair_analytics only runs on a non-empty tick frame, and the
\* step taken on an empty frame adds nothing to the batch, writes nothing,
\* logs no error and moves on to the next pair (or to the write when the
\* pair was the last).
C10_EmptyTicksSkipPair ==
    /\ [](pc = "proc" => df_ticks = "rows")
    /\ [][(pc = "loaded" /\ df_ticks = "empty" /\ pc' # pc /\ signal' = "none") =>
            /\ analytics_batch' = analytics_batch
            /\ store' = store
            /\ lastLog' = lastLog
            /\ pc' = IF pairIdx < Len(SYMBOL_PAIRS) THEN "load" ELSE "write"
            /\ pairIdx < Len(SYMBOL_PAIRS) => pairIdx' = pairIdx + 1]_vars

\* the first pair had no ticks and the loop is at the second pair's load
C10_Witness ==
    /\ pc = "load"
    /\ pairIdx = 2
    /\ df_ticks = "empty"
    /\ signal = "none"

\* -------------------------------------------------------- backtest claims
\* the row of the frame the loop iterates that carries label l
RowByLabel(l) == CHOOSE r \in Range(df) : r.label = l

ZeroSummary(r) ==
    /\ r.kind = "summary"
    /\ r.total_trades = 0
    /\ r.total_pnl = 0
    /\ r.win_rate = 0
    /\ r.avg_pnl = 0
    /\ r.trades = <<>>

\* C5: in simple_backtest the position is always one of 0 (FLAT), +1 (LONG),
\* -1 (SHORT); it is FLAT when the loop starts; and a position is opened
\* (position, entry price or entry time set) only from FLAT.
C5_SinglePosition ==
    /\ [](bt_pc \in {"loop", "returned"} => position \in {0 - 1, 0, 1})
    /\ [][bt_pc = "call" => position' = 0]_vars
    /\ [][(bt_pc = "loop" /\ position' # 0 /\ position' # position)
             => position = 0]_vars
    /\ [][(bt_pc = "loop" /\ (entry_time' # entry_time \/ entry_price' # entry_price))
             => (position = 0 /\ position' # 0)]_vars

\* a position is open after an earlier one was closed
C5_Witness ==
    /\ bt_pc = "loop"
    /\ position # 0
    /\ Len(trades) >= 1

\* C6: every trade simple_backtest emits has entry_time < exit_time.
C6_EntryBeforeExit ==
    \A k \in 1..Len(trades) : trades[k].entry_time < trades[k].exit_time

\* C7: with a position open, whatever row comes next with |zscore| below the
\* exit threshold closes it: exactly one trade is appended, the state is
\* FLAT, pnl = direction * (exit spread - entry spread), the side is that of
\* the open position; and every trade of the ledger carries the spreads of
\* its entry and exit rows and a pnl of that form.
C7_ExitClosesPosition ==
    /\ (bt_pc = "loop" /\ rowNum < Len(df) /\ position # 0) =>
          \A zz \in ZVals : Abs(zz) < exit_threshold =>
              LET row == df[rowNum + 1]
                  st == OnSample(Locals, row.label, zz, row.spread,
                                 entry_threshold, exit_threshold)
                  tr == st.trades[Len(st.trades)]
                  direction == IF position = 1 THEN 1 ELSE 0 - 1
              IN /\ st.position = 0
                 /\ Len(st.trades) = Len(trades) + 1
                 /\ SubSeq(st.trades, 1, Len(trades)) = trades
                 /\ tr.pnl = direction * (row.spread - entry_price)
                 /\ tr.position = (IF position = 1 THEN "LONG" ELSE "SHORT")
                 /\ tr.entry_price = entry_price
                 /\ tr.exit_price = row.spread
                 /\ tr.entry_time = entry_time
                 /\ tr.exit_time = row.label
    /\ \A k \in 1..Len(trades) :
          LET tr == trades[k]
              direction == IF tr.position = "LONG" THEN 1 ELSE 0 - 1
          IN /\ tr.position \in {"LONG", "SHORT"}
             /\ tr.entry_price = RowByLabel(tr.entry_time).spread
             /\ tr.exit_price = RowByLabel(tr.exit_time).spread
             /\ tr.pnl = direction * (tr.exit_price - tr.entry_price)

\* a winning LONG trade followed by a losing SHORT trade
C7_Witness ==
    /\ Len(trades) = 2
    /\ trades[1].position = "LONG"
    /\ trades[1].pnl > 0
    /\ trades[2].position = "SHORT"
    /\ trades[2].pnl < 0

\* C8 as stated: whenever simple_backtest has produced no trade, what it
\* returned is the zero summary.
C8_NoTradeGivesZeroSummary ==
    (bt_pc = "returned" /\ trades = <<>>) => ZeroSummary(result)

\* C8 amended: with no trade over at least MinRows usable rows the zero
\* summary is returned; with fewer usable rows None is returned.
C8_NoTradeSummaryOrNone ==
    (bt_pc = "returned" /\ trades = <<>>) =>
        IF Len(df) < MinRows THEN result.kind = "None" ELSE ZeroSummary(result)

\* a run over a full-length history that closed no trade
C8_Witness ==
    /\ bt_pc = "returned"
    /\ Len(df) >= MinRows
    /\ trades = <<>>
    /\ result.kind = "summary"

\* C9: on the history 0 x5, 10 x5, 0 x5 with thresholds 2.0 and 0.5, zscore
\* within the entry threshold on the first baseline, above it on every spike
\* row and inside the exit threshold on every row after the return, exactly
\* one trade is returned: SHORT, entered on the first spike row at 10, exited
\* on the first row back at 0, with pnl > 0.
C9_SpikeGivesOneShortTrade ==
    (scenario /\ bt_pc = "returned") =>
        /\ result.kind = "summary"
        /\ result.total_trades = 1
        /\ Len(result.trades) = 1
        /\ LET tr == result.trades[1]
           IN /\ tr.position = "SHORT"
              /\ tr.entry_price = 10
              /\ tr.exit_price = 0
              /\ tr.pnl > 0
              /\ RowByLabel(tr.entry_time).ts = 6
              /\ RowByLabel(tr.exit_time).ts = 11
        /\ result.total_pnl > 0

\* the scenario run has returned its summary
C9_Witness ==
    /\ scenario
    /\ bt_pc = "returned"
    /\ result.kind = "summary"
    /\ result.total_trades = 1

\* ------------------------------------------------------- estimator claims
\* C15: compute_hedge_ratio called with a selector outside ols / huber /
\* theilsen fails with the unknown-method error whatever the series are; it
\* never returns a fit or None for such a selector.
C15_UnknownSelectorFails ==
    (hr_pc = "returned" /\ method \notin {"ols", "huber", "theilsen"})
        => hr_result = Raised("ValueError")

\* --------------------------------------------------------- z-score claims
\* C16: compute_zscore returns, without failing, one value per sample; at
\* every position with a full window whose standard deviation is zero the
\* value is null, and at every other position with a full window it is
\* (sample - rolling mean) / rolling std.
C16_ZeroStdGivesNull ==
    zs_pc \in {"called", "done"} =>
        /\ Len(zs) = Len(series)
        /\ \A t \in 1..Len(series) :
             /\ zs[t].kind \in {"null", "val"}
             /\ t >= window =>
                  LET win == WindowAt(series, window, t)
                      varN == window * SumSq(win) - SumSeq(win) * SumSeq(win)
                  IN IF varN = 0
                     THEN zs[t] = Null
                     ELSE zs[t] = [kind |-> "val",
                                   dev |-> window * series[t] - SumSeq(win),
                                   varN |-> varN]

\* a result with a null on a constant window followed by a value
C16_Witness ==
    /\ zs_pc = "called"
    /\ \E t \in window..(Len(series) - 1) :
         /\ zs[t] = Null
         /\ zs[t + 1].kind = "val"

\* C17: two series that agree on every position up to t get the same
\* z-score at t, whatever their later samples and lengths are.
C17_NoLookahead ==
    zs_pc = "done" =>
        \A t \in 1..Len(series) :
            (t <= Len(later) /\ SubSeq(series, 1, t) = SubSeq(later, 1, t))
                => zs[t] = zs_later[t]

\* the copy differs from the series after a position that has a z-score
C17_Witness ==
    /\ zs_pc = "done"
    /\ \E t \in 1..(Len(series) - 1) :
         /\ SubSeq(series, 1, t) = SubSeq(later, 1, t)
         /\ series[t + 1] # later[t + 1]
         /\ zs[t].kind = "val"
         /\ zs_later[t + 1] # zs[t + 1]

\* -------------------------------------------------------- resampler claims
\* the ticks of one symbol that fall in the bin labelled b
TicksIn(sym, b) ==
    SelectSeq(ticks, LAMBDA r : r.symbol = sym /\ BucketLabel(r.ts) = b)

BarsOf(sym) == {k \in 1..Len(bars) : bars[k].symbol = sym}

\* C18: for each symbol, resample_prices returns exactly one bar per bucket
\* holding a tick of that symbol, with the price of the bucket's last tick
\* and the sum of its quantities as volume; a bucket without a tick of the
\* symbol has no bar; an empty frame gives an empty result.
C18_OneBarPerOccupiedBucket ==
    rs_pc = "returned" =>
        /\ \A sym \in Symbols : \A b \in {BucketLabel(ts) : ts \in TickTimes} :
             LET in == TicksIn(sym, b)
                 match == {k \in BarsOf(sym) : bars[k].ts = b}
             IN IF in = <<>>
                THEN match = {}
                ELSE /\ Cardinality(match) = 1
                     /\ \A k \in match :
                          /\ bars[k].price = in[Len(in)].price
                          /\ bars[k].volume = SumQty(in)
        /\ \A k \in 1..Len(bars) :
             bars[k].ts \in {BucketLabel(ts) : ts \in TickTimes}
        /\ ticks = <<>> => bars = <<>>

\* one symbol with two ticks in the first bucket, none in the second and
\* one in the third
C18_Witness ==
    /\ rs_pc = "returned"
    /\ Len(ticks) = 3
    /\ \A k \in 1..3 : ticks[k].symbol = "Y"
    /\ ticks[1].ts = 0 /\ ticks[2].ts = 1 /\ ticks[3].ts = 4
    /\ ticks[1].price # ticks[2].price
    /\ Len(bars) = 2
    /\ bars[1].price = ticks[2].price
    /\ bars[1].volume = ticks[1].qty + ticks[2].qty

\* the right-closed bucket a timestamp lies in, named by its right edge
RightClosedEdge(ts) ==
    IF ts % BucketWidth = 0 THEN ts ELSE ts - (ts % BucketWidth) + BucketWidth

\* C19: the buckets are right-closed: the ticks of a symbol in (e - width, e]
\* make one bar (last price, summed quantity), so a tick on a boundary is in
\* the bar of the bucket ending there; and every tick is in exactly one bar.
C19_RightClosedBuckets ==
    rs_pc = "returned" =>
        \A sym \in Symbols :
            LET mine == SelectSeq(ticks, LAMBDA r : r.symbol = sym)
                edges == {RightClosedEdge(mine[k].ts) : k \in 1..Len(mine)}
            IN /\ Cardinality(BarsOf(sym)) = Cardinality(edges)
               /\ \A e \in edges :
                    LET in == SelectSeq(mine, LAMBDA r : RightClosedEdge(r.ts) = e)
                    IN \E k \in BarsOf(sym) :
                         /\ bars[k].price = in[Len(in)].price
                         /\ bars[k].volume = SumQty(in)

\* ------------------------------------------------- pair/timeframe claims
\* C11: process_pair_analytics requires 30 bars of each symbol for 1s, 10
\* for 1min, 6 for 5min and 30 for any other timeframe: when either symbol
\* has fewer, no signal is computed (no fit, no window, no test) and the
\* call returns None without raising.
C11_MinimumBars ==
    LET need == IF timeframe = "1min" THEN 10
                ELSE IF timeframe = "5min" THEN 6
                ELSE 30
    IN (pp_pc \notin {"idle", "call", "minbars"}
            /\ (y_bars < need \/ x_bars < need))
          => /\ pp_pc = "returned"
             /\ pp_result = None
             /\ hedge_result = NoResult
             /\ z_window = 0 /\ corr_window = 0 /\ vol_window = 0
             /\ adf_result = NoResult

\* a 1min call with 9 bars of one symbol and 40 of the other has returned
C11_Witness ==
    /\ pp_pc = "returned"
    /\ timeframe = "1min"
    /\ y_bars = 9
    /\ x_bars = 40
    /\ pp_result = None

\* C12: each signal's window is its configured window capped to the aligned
\* length, min(configured, max(3, length)), independently of the others;
\* with length 40, z-score window 30 and correlation window 60 the
\* correlation window is 40 and the z-score window 30.
C12_WindowsCapped ==
    LET Capped(c) == IF aligned < 3 THEN (IF c <= 3 THEN c ELSE 3)
                     ELSE IF c <= aligned THEN c ELSE aligned
    IN pp_pc \in {"adf", "latest"} =>
          /\ z_window = Capped(rolling_windows.zscore)
          /\ corr_window = Capped(rolling_windows.correlation)
          /\ vol_window = Capped(rolling_windows.volatility)
          /\ (aligned = 40 /\ rolling_windows.zscore = 30
                /\ rolling_windows.correlation = 60)
                => (corr_window = 40 /\ z_window = 30)

\* the windows of a call with 40 aligned rows and windows 30 / 60
C12_Witness ==
    /\ pp_pc = "adf"
    /\ aligned = 40
    /\ rolling_windows.zscore = 30
    /\ rolling_windows.correlation = 60
    /\ corr_window = 40
    /\ z_window = 30

\* C13: a record made from a spread of fewer than 50 non-null observations
\* has adf_statistic, adf_pvalue and is_stationary null while hedge_ratio,
\* alpha, spread and zscore are populated; in every record the three ADF
\* fields are all null or all non-null.
C13_AdfNullBelowFifty ==
    (pp_pc = "returned" /\ pp_result.kind = "record") =>
        /\ aligned < 50 =>
             /\ pp_result.adf_statistic = Null
             /\ pp_result.adf_pvalue = Null
             /\ pp_result.is_stationary = Null
             /\ pp_result.hedge_ratio = "value"
             /\ pp_result.alpha = "value"
             /\ pp_result.spread = "value"
             /\ pp_result.zscore = "value"
        /\ \/ /\ pp_result.adf_statistic = Null
              /\ pp_result.adf_pvalue = Null
              /\ pp_result.is_stationary = Null
           \/ /\ pp_result.adf_statistic # Null
              /\ pp_result.adf_pvalue # Null
              /\ pp_result.is_stationary # Null

\* a record made from 40 aligned rows
C13_Witness ==
    /\ pp_pc = "returned"
    /\ pp_result.kind = "record"
    /\ aligned = 40
    /\ pp_result.adf_pvalue = Null

\* C14: in every record the stationarity flag is true exactly when the
\* reported p-value is below 0.05; a p-value of 0.05 is not stationary.
C14_StationaryIffBelowLevel ==
    (pp_pc = "returned" /\ pp_result.kind = "record") =>
        (pp_result.is_stationary = Stat(1)
            <=> (pp_result.adf_pvalue.kind = "val"
                    /\ pp_result.adf_pvalue.v < 50))

\* a record with a p-value of exactly 0.05 and the flag 0
C14_Witness ==
    /\ pp_pc = "returned"
    /\ pp_result.kind = "record"
    /\ pp_result.adf_pvalue = Stat(50)
    /\ pp_result.is_stationary = Stat(0)

\* ------------------------------------------------------ entry-rule claim
\* C20: from FLAT, whatever row comes next, a zscore above the entry
\* threshold makes the position SHORT and a zscore below minus the threshold
\* makes it LONG, with that row's spread and index as entry price and time;
\* any other zscore, the threshold itself included, leaves every local as it
\* was; no trade is emitted in any of the three cases.
C20_EntryFromFlat ==
    (bt_pc = "loop" /\ rowNum < Len(df) /\ position = 0) =>
        \A zz \in ZVals :
            LET row == df[rowNum + 1]
                st == OnSample(Locals, row.label, zz, row.spread,
                               entry_threshold, exit_threshold)
            IN /\ st.trades = trades
               /\ IF zz > entry_threshold
                  THEN /\ st.position = 0 - 1
                       /\ st.entry_price = row.spread
                       /\ st.entry_time = row.label
                  ELSE IF zz < 0 - entry_threshold
                  THEN /\ st.position = 1
                       /\ st.entry_price = row.spread
                       /\ st.entry_time = row.label
                  ELSE st = Locals

\* the row just read opened a LONG position at its spread and index, with
\* the entry threshold itself among the zscore values
C20_Witness ==
    /\ bt_pc = "loop"
    /\ rowNum >= 2
    /\ position = 1
    /\ entry_time = df[rowNum].label
    /\ entry_price = df[rowNum].spread
    /\ trades = <<>>
    /\ entry_threshold \in ZVals

\* ------------------------------------------------- simulator claims, cont.
\* the place in iteration order of the row of df labelled l
PosOf(l) == CHOOSE k \in 1..Len(df) : df[k].label = l

\* C21: no sample both opens and closes a position, whatever the thresholds
\* (exit above entry included): a step that appends a trade started in a
\* position and opens none, a step that opens a position appends no trade,
\* and every trade's exit row comes after its entry row in iteration order.
C21_EntryExitExclusive ==
    /\ [](\A k \in 1..Len(trades) :
             PosOf(trades[k].entry_time) < PosOf(trades[k].exit_time))
    /\ [][(bt_pc = "loop" /\ Len(trades') > Len(trades))
             => (position # 0 /\ position' = 0 /\ entry_time' = entry_time
                    /\ entry_price' = entry_price)]_vars
    /\ [][(bt_pc = "loop" /\ position = 0 /\ position' # 0)
             => trades' = trades]_vars

\* a trade closed under an exit threshold above the entry threshold
C21_Witness ==
    /\ bt_pc = "loop"
    /\ exit_threshold > entry_threshold
    /\ Len(trades) >= 1
    /\ position # 0

\* C22: a position still open when the rows are exhausted is neither closed
\* nor reported: returning changes neither the position nor the ledger, and
\* the summary counts and lists exactly the trades closed in the loop.
C22_OpenPositionNotReported ==
    /\ []((bt_pc = "returned" /\ result.kind = "summary") =>
             /\ result.total_trades = Len(trades)
             /\ result.trades = trades
             /\ result.total_pnl = SumPnl(trades)
             /\ position # 0 =>
                  \A k \in 1..Len(trades) : trades[k].entry_time # entry_time)
    /\ [][(bt_pc = "loop" /\ bt_pc' = "returned")
             => (trades' = trades /\ position' = position)]_vars

\* a run returned with one closed trade and a position still open
C22_Witness ==
    /\ bt_pc = "returned"
    /\ position # 0
    /\ Len(trades) = 1
    /\ result.total_trades = 1

\* C23: the loop runs over the history without its null rows, in order; no
\* null row is read, and none is the entry or exit of a trade or the entry
\* of the open position.
C23_NullRowsDropped ==
    bt_pc \in {"loop", "returned"} =>
        /\ df = SelectSeq(df_analytics, LAMBDA r : ~r.null)
        /\ \A k \in 1..Len(df) : ~df[k].null
        /\ \A j \in 1..Len(df_analytics) :
             df_analytics[j].null =>
                /\ \A k \in 1..Len(trades) :
                     /\ trades[k].entry_time # df_analytics[j].label
                     /\ trades[k].exit_time # df_analytics[j].label
                /\ position # 0 => entry_time # df_analytics[j].label

\* a trade closed over a history that had a null row
C23_Witness ==
    /\ bt_pc = "loop"
    /\ Len(df) < Len(df_analytics)
    /\ Len(trades) >= 1

\* C24: the trades of a run are in input order and disjoint: each trade's
\* entry row comes strictly after the previous trade's exit row; so after n
\* rows at most n div 2 trades exist.
C24_TradesDisjointInOrder ==
    /\ \A k \in 1..(Len(trades) - 1) :
          PosOf(trades[k].exit_time) < PosOf(trades[k + 1].entry_time)
    /\ 2 * Len(trades) <= rowNum
    /\ (bt_pc = "returned" /\ result.kind = "summary")
          => 2 * result.total_trades <= Len(df)

\* two trades closed over the first four rows
C24_Witness ==
    /\ Len(trades) = 2
    /\ rowNum = 4

\* C27: with an exit threshold of zero or less no |zscore| is below it: an
\* open position stays open on every sample, no trade is ever emitted and
\* the run returns None or the zero summary.
C27_NonPositiveExitNeverCloses ==
    /\ [](exit_threshold <= 0 =>
             /\ trades = <<>>
             /\ bt_pc = "returned" => (result = None \/ ZeroSummary(result)))
    /\ []((bt_pc = "loop" /\ rowNum < Len(df) /\ position # 0) =>
             \A zz \in ZVals : \A ex \in {0 - 5, 0} :
                 OnSample(Locals, df[rowNum + 1].label, zz,
                          df[rowNum + 1].spread, entry_threshold, ex) = Locals)
    /\ [][(exit_threshold <= 0 /\ position # 0) => position' = position]_vars

\* a run with exit threshold 0 returned the zero summary with a position open
C27_Witness ==
    /\ bt_pc = "returned"
    /\ exit_threshold = 0
    /\ position # 0
    /\ ZeroSummary(result)

DefinedBars ==
    {tail_rows[k].ts : k \in {j \in 1..Len(tail_rows) :
                                 /\ tail_rows[j].zscore = "value"
                                 /\ tail_rows[j].correlation = "value"}}
        \cup (IF older_row > 0 THEN {older_row} ELSE {})

\* C26: a call that reaches the latest-row step returns None when no aligned
\* bar has spread, zscore and correlation all defined, and otherwise a record
\* with the three non-null whose ts is that of the most recent such bar,
\* which can be older than the latest aligned bar.
C26_LatestDefinedBar ==
    (pp_pc = "returned" /\ adf_result # NoResult) =>
        IF DefinedBars = {}
        THEN pp_result = None
        ELSE /\ pp_result.kind = "record"
             /\ pp_result.spread = "value"
             /\ pp_result.zscore = "value"
             /\ pp_result.correlation = "value"
             /\ pp_result.ts \in DefinedBars
             /\ \A b \in DefinedBars : b <= pp_result.ts

\* a record taken from the bar before the latest one, whose zscore is NaN
C26_Witness ==
    /\ pp_pc = "returned"
    /\ pp_result.kind = "record"
    /\ pp_result.ts = aligned - 1
    /\ tail_rows[Len(tail_rows)].zscore = "nan"
    /\ tail_rows[Len(tail_rows)].correlation = "value"

\* -------------------------------------------------------- ingestion claim
\* C28: rows of ticks become committed only by a commit taken when msg_count
\* is a positive multiple of 100, and then all pending rows at once; a
\* connection that ends by an exception commits nothing and rolls back the
\* rows since the last commit, at most 99 of them when the connection was
\* closed; msg_count restarts at 0 on every connection; and after every
\* exception ingest_forever sleeps and connects again.
C28_BatchedCommitAndReconnect ==
    /\ [][committed' # committed =>
              /\ ig_pc = "commit"
              /\ msg_count > 0
              /\ msg_count % CommitEvery = 0
              /\ committed' = committed + pending
              /\ pending' = 0]_vars
    /\ [](ig_pc = "recv" => pending = msg_count % CommitEvery)
    /\ [][(ig_pc \in {"recv", "commit"} /\ ig_pc' = "sleep") =>
              /\ committed' = committed
              /\ dropped' = pending
              /\ pending' = 0
              /\ cause' = "ConnectionClosed" => dropped' <= CommitEvery - 1]_vars
    /\ [][(ig_pc = "connect" /\ ig_pc' = "recv") => msg_count' = 0]_vars
    /\ [][(ig_pc \in {"connect", "recv", "commit"} /\ ig_pc' \notin {"connect", "recv", "commit"})
              => ig_pc' \in {"sleep", "stopped"}]_vars
    /\ [](ig_pc = "stopped" => cause = "KeyboardInterrupt")
    /\ (ig_pc = "sleep" /\ attempt < MaxAttempts)
          ~> (ig_pc = "connect" \/ ig_pc = "stopped")

\* the second connection, opened after the first one was closed with 99
\* uncommitted rows behind one commit, has received its first message
C28_Witness ==
    /\ ig_pc = "recv"
    /\ attempt = 2
    /\ cause = "ConnectionClosed"
    /\ committed = CommitEvery
    /\ dropped = CommitEvery - 1
    /\ msg_count = 1

====
